---- MODULE Spec2Model ----
(***************************************************************************)
(* Model of the ticket e-mail dispatcher of src/app/api/resend/post/       *)
(* route.ts: the GET/POST handler, the data store rows it reads and        *)
(* updates (tickets.email_send), and the e-mail provider it calls.         *)
(* One step of the model is one run of the handler between two awaits.     *)
(***************************************************************************)
EXTENDS Integers, Sequences, FiniteSets, TLC

\* ---------------------------------------------------------------- bounds
NumTickets == 7
NumUsers == 3
NumPayments == 6
MaxRuns == 2

\* ------------------------------------------------------- sample data sets
Tickets == 1..NumTickets
Users == 1..NumUsers
Payments == 1..NumPayments
Invocations == {"cron", "manual"}
\* the scheduler calls with GET, the on-demand caller with POST
Method(i) == IF i = "cron" THEN "GET" ELSE "POST"

CRON_SECRET == "s3cret"
NullHeader == "<null>"
Headers == {NullHeader, "Bearer wrong", "Bearer " \o CRON_SECRET}

ProviderErrors == {"network error", "rate limit exceeded"}
DbErrors == {"network error"}
FetchErrors == {"connection refused"}

\* the row's pay_id and its tickets column (the raffle number)
pay_id(t) == ((t - 1) % NumPayments) + 1
TicketNumber(t) == (7 * t * t) % 10000

\* the sample rows of pay_data and user_data: every fifth payment has no
\* user, every sixth is not validated, every second user has no email
SampleUser(p) == IF p % 5 = 0 THEN <<>> ELSE <<((p - 1) % NumUsers) + 1>>
SampleValidated(p) == p % 6 # 0
SampleEmail(u) == IF u % 2 = 0 THEN "" ELSE "user@example.com"

VARIABLES
  email_send,    \* tickets.email_send, per ticket
  validated,     \* pay_data.validated, per payment
  user_data,     \* pay_data -> user_data relation: <<>> (null) or <<id_user>>
  email,         \* user_data.email, per user ("" when not registered)
  pc,            \* per invocation: "idle", "fetching", "running", "done"
  authHeader,    \* per invocation: the request's authorization header
  ticketsData,   \* per invocation: the rows the select returned
  usersToEmail,  \* per invocation: the groups, keyed by id_user
  emailPromises, \* per invocation: the state of each group's promise
  response,      \* per invocation: the response returned
  fetchCalls,    \* per invocation: the select queries issued
  sendCalls,     \* per invocation: the resend.emails.send calls issued
  updateCalls,   \* per invocation: the update queries issued
  runs,          \* invocations started so far
  latest,        \* of the invocations that came one at a time: the one
                 \* started last ("none" before the first)
  previous,      \* the invocation started just before it, when its
                 \* response is still there ("none" otherwise)
  nextEmailId,   \* the provider's next message identifier
  delivered      \* per ticket: e-mails delivered that list the ticket

vars == <<email_send, validated, user_data, email, pc, authHeader,
          ticketsData, usersToEmail, emailPromises, response, fetchCalls, sendCalls,
          updateCalls, runs, latest, previous, nextEmailId, delivered>>

dbVars == <<validated, user_data, email>>

\* ----------------------------------------------------------- pure helpers
RECURSIVE padStart(_, _, _)
padStart(s, n, c) == IF Len(s) >= n THEN s ELSE padStart(c \o s, n, c)

Range(s) == {s[k] : k \in DOMAIN s}

RECURSIVE SeqOfSet(_)
SeqOfSet(S) ==
  IF S = {} THEN <<>>
  ELSE LET m == CHOOSE x \in S : \A y \in S : x <= y
       IN <<m>> \o SeqOfSet(S \ {m})

NoResponse == [status |-> 0, message |-> "", error |-> "",
               hasResults |-> FALSE, success |-> <<>>, failed |-> <<>>]

\* line 45: the bearer check
Authorized(h) == h = "Bearer " \o CRON_SECRET

\* lines 55-68: the select with its two filters and the inner join
Row(t) == [id_tickets |-> t,
           tickets |-> ToString(TicketNumber(t)),
           email_send |-> email_send[t],
           pay_data |-> [id_pay |-> pay_id(t),
                         validated |-> validated[pay_id(t)],
                         user_data |-> user_data[pay_id(t)]]]

\* the select without its email_send filter
EligibleIgnoringSent(t) == validated[pay_id(t)] = TRUE

\* the select without its pay_data.validated filter
EligibleIgnoringValidated(t) == email_send[t] = FALSE

Eligible(t) == email_send[t] = FALSE /\ validated[pay_id(t)] = TRUE

SelectTickets == [k \in 1..Cardinality({t \in Tickets : Eligible(t)}) |->
                    Row(SeqOfSet({t \in Tickets : Eligible(t)})[k])]

\* the grouping loop keyed by the payment instead of the user
RECURSIVE GroupByPayment(_, _)
GroupByPayment(rows, acc) ==
  IF rows = <<>> THEN acc
  ELSE LET ticket == Head(rows)
           userArray == ticket.pay_data.user_data
       IN IF userArray = <<>> THEN GroupByPayment(Tail(rows), acc)
          ELSE LET user == userArray[1]
                   groupKey == ticket.pay_data.id_pay
                   acc1 == IF groupKey \in DOMAIN acc THEN acc
                           ELSE acc @@ (groupKey :>
                                  [id_user |-> user,
                                   email |-> email[user],
                                   tickets |-> <<>>])
               IN GroupByPayment(Tail(rows),
                    [acc1 EXCEPT ![groupKey].tickets = Append(@, ticket)])

\* lines 92-111: the grouping loop
RECURSIVE GroupByUser(_, _)
GroupByUser(rows, acc) ==
  IF rows = <<>> THEN acc
  ELSE LET ticket == Head(rows)
           userArray == ticket.pay_data.user_data
       IN IF userArray = <<>> THEN GroupByUser(Tail(rows), acc)
          ELSE LET user == userArray[1]
                   groupKey == user
                   acc1 == IF groupKey \in DOMAIN acc THEN acc
                           ELSE acc @@ (groupKey :>
                                  [id_user |-> user,
                                   email |-> email[user],
                                   tickets |-> <<>>])
               IN GroupByUser(Tail(rows),
                    [acc1 EXCEPT ![groupKey].tickets = Append(@, ticket)])

EmptyGroups == [u \in {} |-> 0]

\* the update keyed by the first ticket of the group only
TicketIdsFirstOnly(user) == <<user.tickets[1].id_tickets>>

\* line 122 and line 144
TicketList(user) == [k \in DOMAIN user.tickets |->
                       padStart(user.tickets[k].tickets, 4, "0")]
TicketIdsToUpdate(user) == [k \in DOMAIN user.tickets |->
                              user.tickets[k].id_tickets]

\* ---- the promise of one group: state of the promise and its value
Pending == [state |-> "pending", status |-> "", id_user |-> 0,
            error |-> "", email_id |-> 0]
\* lines 116-119
MissingEmail(user) == [state |-> "fulfilled", status |-> "rejected",
                       id_user |-> user.id_user,
                       error |-> "El usuario no tiene un email registrado.",
                       email_id |-> 0]
\* line 140
SendFailed(user, msg) == [state |-> "rejected", status |-> "",
                          id_user |-> user.id_user, error |-> msg,
                          email_id |-> 0]
\* the update failure reported with the bare data store message
UpdateFailedNoPrefix(user, msg) == [state |-> "rejected", status |-> "",
                                    id_user |-> user.id_user, error |-> msg,
                                    email_id |-> 0]
\* line 153
UpdateFailed(user, msg) == [state |-> "rejected", status |-> "",
                            id_user |-> user.id_user,
                            error |-> "Email sent, but DB update failed: " \o msg,
                            email_id |-> 0]
\* line 156
Sent(user, id) == [state |-> "fulfilled", status |-> "fulfilled",
                   id_user |-> user.id_user, error |-> "", email_id |-> id]

\* the group's function without its email check
StartGroupNoCheck(user) == Pending

\* lines 114-136: the synchronous part of one group's async function
StartGroup(user) == IF user.email = "" THEN MissingEmail(user) ELSE Pending

\* lines 126-136: the call to the provider, with its result once returned
SendCall(user) == [id_user |-> user.id_user, to |-> user.email,
                   tickets |-> TicketList(user), result |-> "pending",
                   email_id |-> 0, error |-> ""]

\* lines 145-148: the update query, with its result once returned
UpdateCall(user) == [id_user |-> user.id_user,
                     ids |-> TicketIdsToUpdate(user), result |-> "pending",
                     error |-> ""]

\* lines 55-68: the select query, with its result once returned
FetchCall == [result |-> "pending", error |-> ""]

\* the calls issued by the map over Object.values(usersToEmail), in key order
SendCallsOf(groups) ==
  LET keys == SeqOfSet({u \in DOMAIN groups :
                          StartGroup(groups[u]).state = "pending"})
  IN [k \in DOMAIN keys |-> SendCall(groups[keys[k]])]

\* lines 163-178: the partition of the settled results
IsSuccess(p) == p.state = "fulfilled" /\ p.status = "fulfilled"
\* the partition without its branch for handled failures
IsFailedThrownOnly(p) == p.state = "rejected"
IsFailed(p) == \/ p.state = "fulfilled" /\ p.status = "rejected"
               \/ p.state = "rejected"

Results(promises) ==
  LET keys == SeqOfSet(DOMAIN promises)
      succ == SelectSeq(keys, LAMBDA u : IsSuccess(promises[u]))
      fail == SelectSeq(keys, LAMBDA u : IsFailed(promises[u]))
  IN [success |-> [k \in DOMAIN succ |->
                     [id_user |-> promises[succ[k]].id_user,
                      email_id |-> promises[succ[k]].email_id]],
      failed |-> [k \in DOMAIN fail |->
                     [id_user |-> promises[fail[k]].id_user,
                      error |-> promises[fail[k]].error]]]

\* ------------------------------------------------------------------ Init
Init ==
  /\ email_send = [t \in Tickets |-> FALSE]
  /\ validated \in {[p \in Payments |-> SampleValidated(p)],
                    [p \in Payments |-> p = 1],
                    [p \in Payments |-> FALSE]}
  /\ user_data = [p \in Payments |-> SampleUser(p)]
  /\ email = [u \in Users |-> SampleEmail(u)]
  /\ pc = [i \in Invocations |-> "idle"]
  /\ authHeader = [i \in Invocations |-> NullHeader]
  /\ ticketsData = [i \in Invocations |-> <<>>]
  /\ usersToEmail = [i \in Invocations |-> EmptyGroups]
  /\ emailPromises = [i \in Invocations |-> EmptyGroups]
  /\ response = [i \in Invocations |-> NoResponse]
  /\ fetchCalls = [i \in Invocations |-> <<>>]
  /\ sendCalls = [i \in Invocations |-> <<>>]
  /\ updateCalls = [i \in Invocations |-> <<>>]
  /\ runs = 0
  /\ latest = "none"
  /\ previous = "none"
  /\ nextEmailId = 1
  /\ delivered = [t \in Tickets |-> 0]

\* --------------------------------------------------------------- actions
\* lines 42-68: the request arrives; the bearer check; the select is issued
POST(i, h) ==
  /\ pc[i] \in {"idle", "done"}
  /\ runs < MaxRuns
  /\ runs' = runs + 1
  /\ ticketsData' = [ticketsData EXCEPT ![i] = <<>>]
  /\ usersToEmail' = [usersToEmail EXCEPT ![i] = EmptyGroups]
  /\ emailPromises' = [emailPromises EXCEPT ![i] = EmptyGroups]
  /\ sendCalls' = [sendCalls EXCEPT ![i] = <<>>]
  /\ updateCalls' = [updateCalls EXCEPT ![i] = <<>>]
  /\ IF ~Authorized(h)
     THEN /\ response' = [response EXCEPT ![i] =
                 [NoResponse EXCEPT !.status = 401, !.message = "Unauthorized"]]
          /\ fetchCalls' = [fetchCalls EXCEPT ![i] = <<>>]
          /\ pc' = [pc EXCEPT ![i] = "done"]
     ELSE /\ response' = [response EXCEPT ![i] = NoResponse]
          /\ fetchCalls' = [fetchCalls EXCEPT ![i] = <<FetchCall>>]
          /\ pc' = [pc EXCEPT ![i] = "fetching"]
  /\ UNCHANGED <<email_send, dbVars, nextEmailId, delivered>>

\* the cron alias entering the handler as if the secret had been sent
GETNoAuth(i, h) == POST(i, "Bearer " \o CRON_SECRET)

\* lines 38-40
GET(i, h) == POST(i, h)

\* the route's export called for the request's method
Route(i, h) ==
  /\ authHeader' = [authHeader EXCEPT ![i] = h]
  /\ IF Method(i) = "GET" THEN GET(i, h) ELSE POST(i, h)

Request(i, h) == Route(i, h) /\ UNCHANGED <<latest, previous>>

\* the fetch error branch without its return: the handler goes on with
\* ticketsData = null
FetchErrorNoReturn(i, msg) ==
  /\ pc[i] = "fetching"
  /\ response' = [response EXCEPT ![i] =
        [NoResponse EXCEPT !.status = 200,
           !.message = "No hay correos pendientes por enviar."]]
  /\ fetchCalls' = [fetchCalls EXCEPT ![i][1].result = "error",
                                      ![i][1].error = msg]
  /\ pc' = [pc EXCEPT ![i] = "done"]
  /\ UNCHANGED <<email_send, dbVars, authHeader, ticketsData, usersToEmail,
                 emailPromises, sendCalls, updateCalls, runs, latest,
                 previous, nextEmailId, delivered>>

\* lines 70-76: the select returns an error
FetchError(i, msg) ==
  /\ pc[i] = "fetching"
  /\ response' = [response EXCEPT ![i] =
        [NoResponse EXCEPT !.status = 500,
           !.message = "Error al obtener usuarios para enviar correos",
           !.error = msg]]
  /\ fetchCalls' = [fetchCalls EXCEPT ![i][1].result = "error",
                                      ![i][1].error = msg]
  /\ pc' = [pc EXCEPT ![i] = "done"]
  /\ UNCHANGED <<email_send, dbVars, authHeader, ticketsData, usersToEmail,
                 emailPromises, sendCalls, updateCalls, runs, latest,
                 previous, nextEmailId, delivered>>

\* lines 49-50, 181-184: createClient or the query throws
FetchThrows(i, msg) ==
  /\ pc[i] = "fetching"
  /\ response' = [response EXCEPT ![i] =
        [NoResponse EXCEPT !.status = 500,
           !.message = "Ocurrio un error inesperado en el servidor.",
           !.error = msg]]
  /\ fetchCalls' = [fetchCalls EXCEPT ![i][1].result = "throw",
                                      ![i][1].error = msg]
  /\ pc' = [pc EXCEPT ![i] = "done"]
  /\ UNCHANGED <<email_send, dbVars, authHeader, ticketsData, usersToEmail,
                 emailPromises, sendCalls, updateCalls, runs, latest,
                 previous, nextEmailId, delivered>>

\* the handler without its check for an empty result (lines 77-80)
FetchNoEmptyCheck(i) ==
  /\ pc[i] = "fetching"
  /\ LET rows == SelectTickets
         groups == GroupByUser(rows, EmptyGroups)
     IN /\ ticketsData' = [ticketsData EXCEPT ![i] = rows]
        /\ usersToEmail' = [usersToEmail EXCEPT ![i] = groups]
        /\ emailPromises' = [emailPromises EXCEPT ![i] =
              [u \in DOMAIN groups |-> StartGroup(groups[u])]]
        /\ sendCalls' = [sendCalls EXCEPT ![i] = SendCallsOf(groups)]
        /\ pc' = [pc EXCEPT ![i] = "running"]
        /\ UNCHANGED response
  /\ fetchCalls' = [fetchCalls EXCEPT ![i][1].result = "ok"]
  /\ UNCHANGED <<email_send, dbVars, authHeader, updateCalls, runs, latest,
                 previous, nextEmailId, delivered>>

\* lines 55-136: the select returns rows; grouping; every group's async
\* function runs up to its first await
Fetch(i) ==
  /\ pc[i] = "fetching"
  /\ LET rows == SelectTickets
         groups == GroupByUser(rows, EmptyGroups)
     IN IF Len(rows) = 0
        THEN /\ response' = [response EXCEPT ![i] =
                   [NoResponse EXCEPT !.status = 200,
                      !.message = "No hay correos pendientes por enviar."]]
             /\ pc' = [pc EXCEPT ![i] = "done"]
             /\ UNCHANGED <<ticketsData, usersToEmail, emailPromises,
                            sendCalls>>
        ELSE /\ ticketsData' = [ticketsData EXCEPT ![i] = rows]
             /\ usersToEmail' = [usersToEmail EXCEPT ![i] = groups]
             /\ emailPromises' = [emailPromises EXCEPT ![i] =
                   [u \in DOMAIN groups |-> StartGroup(groups[u])]]
             /\ sendCalls' = [sendCalls EXCEPT ![i] = SendCallsOf(groups)]
             /\ pc' = [pc EXCEPT ![i] = "running"]
             /\ UNCHANGED response
  /\ fetchCalls' = [fetchCalls EXCEPT ![i][1].result = "ok"]
  /\ UNCHANGED <<email_send, dbVars, authHeader, updateCalls, runs, latest,
                 previous, nextEmailId, delivered>>

\* index of the group's call in a call log (0 when there is none)
CallIndex(calls, u) ==
  IF \E k \in DOMAIN calls : calls[k].id_user = u
  THEN CHOOSE k \in DOMAIN calls : calls[k].id_user = u ELSE 0

AwaitingSend(i, u) ==
  /\ pc[i] = "running"
  /\ u \in DOMAIN emailPromises[i]
  /\ emailPromises[i][u].state = "pending"
  /\ CallIndex(sendCalls[i], u) # 0
  /\ sendCalls[i][CallIndex(sendCalls[i], u)].result = "pending"

AwaitingUpdate(i, u) ==
  /\ pc[i] = "running"
  /\ u \in DOMAIN emailPromises[i]
  /\ emailPromises[i][u].state = "pending"
  /\ CallIndex(updateCalls[i], u) # 0
  /\ updateCalls[i][CallIndex(updateCalls[i], u)].result = "pending"

\* the send error branch without its throw: the group goes on to the update
SendErrorNoThrow(i, u, msg) ==
  /\ AwaitingSend(i, u)
  /\ sendCalls' = [sendCalls EXCEPT
        ![i][CallIndex(sendCalls[i], u)].result = "error",
        ![i][CallIndex(sendCalls[i], u)].error = msg]
  /\ updateCalls' = [updateCalls EXCEPT
        ![i] = Append(@, UpdateCall(usersToEmail[i][u]))]
  /\ UNCHANGED <<email_send, dbVars, pc, authHeader, ticketsData,
                 usersToEmail, emailPromises, response, fetchCalls, runs,
                 latest, previous, nextEmailId, delivered>>

\* the send error branch trying the send once more before giving up
SendErrorRetry(i, u, msg) ==
  /\ AwaitingSend(i, u)
  /\ sendCalls' = [sendCalls EXCEPT
        ![i] = Append([@ EXCEPT ![CallIndex(sendCalls[i], u)].result = "error",
                                ![CallIndex(sendCalls[i], u)].error = msg],
                      SendCall(usersToEmail[i][u]))]
  /\ UNCHANGED <<email_send, dbVars, pc, authHeader, ticketsData,
                 usersToEmail, emailPromises, response, fetchCalls,
                 updateCalls, runs, latest, previous, nextEmailId,
                 delivered>>

\* lines 126-141: the provider returns an error; the group throws
SendError(i, u, msg) ==
  /\ AwaitingSend(i, u)
  /\ sendCalls' = [sendCalls EXCEPT
        ![i][CallIndex(sendCalls[i], u)].result = "error",
        ![i][CallIndex(sendCalls[i], u)].error = msg]
  /\ emailPromises' = [emailPromises EXCEPT
        ![i][u] = SendFailed(usersToEmail[i][u], msg)]
  /\ UNCHANGED <<email_send, dbVars, pc, authHeader, ticketsData,
                 usersToEmail, response, fetchCalls, updateCalls, runs,
                 latest, previous, nextEmailId, delivered>>

\* lines 126-148: the provider delivers the e-mail and returns its id;
\* the group issues the update
SendOk(i, u) ==
  /\ AwaitingSend(i, u)
  /\ sendCalls' = [sendCalls EXCEPT
        ![i][CallIndex(sendCalls[i], u)].result = "ok",
        ![i][CallIndex(sendCalls[i], u)].email_id = nextEmailId]
  /\ nextEmailId' = nextEmailId + 1
  /\ delivered' = [t \in Tickets |->
        IF t \in Range(TicketIdsToUpdate(usersToEmail[i][u]))
        THEN delivered[t] + 1 ELSE delivered[t]]
  /\ updateCalls' = [updateCalls EXCEPT
        ![i] = Append(@, UpdateCall(usersToEmail[i][u]))]
  /\ UNCHANGED <<email_send, dbVars, pc, authHeader, ticketsData,
                 usersToEmail, emailPromises, response, fetchCalls, runs,
                 latest, previous>>

\* the update error branch compensating by clearing the flag of its rows
UpdateErrorRollback(i, u, msg) ==
  /\ AwaitingUpdate(i, u)
  /\ updateCalls' = [updateCalls EXCEPT
        ![i][CallIndex(updateCalls[i], u)].result = "error",
        ![i][CallIndex(updateCalls[i], u)].error = msg]
  /\ email_send' = [t \in Tickets |->
        IF t \in Range(updateCalls[i][CallIndex(updateCalls[i], u)].ids)
        THEN FALSE ELSE email_send[t]]
  /\ emailPromises' = [emailPromises EXCEPT
        ![i][u] = UpdateFailed(usersToEmail[i][u], msg)]
  /\ UNCHANGED <<dbVars, pc, authHeader, ticketsData, usersToEmail,
                 response, fetchCalls, sendCalls, runs, latest, previous,
                 nextEmailId, delivered>>

\* the update error branch after a retry of the update that got through
UpdateErrorRetried(i, u, msg) ==
  /\ AwaitingUpdate(i, u)
  /\ updateCalls' = [updateCalls EXCEPT
        ![i][CallIndex(updateCalls[i], u)].result = "error",
        ![i][CallIndex(updateCalls[i], u)].error = msg]
  /\ email_send' = [t \in Tickets |->
        IF t \in Range(updateCalls[i][CallIndex(updateCalls[i], u)].ids)
        THEN TRUE ELSE email_send[t]]
  /\ emailPromises' = [emailPromises EXCEPT
        ![i][u] = UpdateFailed(usersToEmail[i][u], msg)]
  /\ UNCHANGED <<dbVars, pc, authHeader, ticketsData, usersToEmail,
                 response, fetchCalls, sendCalls, runs, latest, previous,
                 nextEmailId, delivered>>

\* lines 145-154: the update returns an error; the group throws
UpdateError(i, u, msg) ==
  /\ AwaitingUpdate(i, u)
  /\ updateCalls' = [updateCalls EXCEPT
        ![i][CallIndex(updateCalls[i], u)].result = "error",
        ![i][CallIndex(updateCalls[i], u)].error = msg]
  /\ emailPromises' = [emailPromises EXCEPT
        ![i][u] = UpdateFailed(usersToEmail[i][u], msg)]
  /\ UNCHANGED <<email_send, dbVars, pc, authHeader, ticketsData,
                 usersToEmail, response, fetchCalls, sendCalls, runs,
                 latest, previous, nextEmailId, delivered>>

\* the update filtering on the first identifier only (.eq instead of .in)
UpdateOkFirstOnly(i, u) ==
  /\ AwaitingUpdate(i, u)
  /\ LET call == updateCalls[i][CallIndex(updateCalls[i], u)]
         sent == sendCalls[i][CallIndex(sendCalls[i], u)]
     IN /\ email_send' = [t \in Tickets |->
               IF t = call.ids[1] THEN TRUE ELSE email_send[t]]
        /\ emailPromises' = [emailPromises EXCEPT
               ![i][u] = Sent(usersToEmail[i][u], sent.email_id)]
  /\ updateCalls' = [updateCalls EXCEPT
        ![i][CallIndex(updateCalls[i], u)].result = "ok"]
  /\ UNCHANGED <<dbVars, pc, authHeader, ticketsData, usersToEmail,
                 response, fetchCalls, sendCalls, runs, latest, previous,
                 nextEmailId, delivered>>

\* lines 145-156: the data store sets email_send on the rows; the group
\* returns its success value
UpdateOk(i, u) ==
  /\ AwaitingUpdate(i, u)
  /\ LET call == updateCalls[i][CallIndex(updateCalls[i], u)]
         sent == sendCalls[i][CallIndex(sendCalls[i], u)]
     IN /\ email_send' = [t \in Tickets |->
               IF t \in Range(call.ids) THEN TRUE ELSE email_send[t]]
        /\ emailPromises' = [emailPromises EXCEPT
               ![i][u] = Sent(usersToEmail[i][u], sent.email_id)]
  /\ updateCalls' = [updateCalls EXCEPT
        ![i][CallIndex(updateCalls[i], u)].result = "ok"]
  /\ UNCHANGED <<dbVars, pc, authHeader, ticketsData, usersToEmail,
                 response, fetchCalls, sendCalls, runs, latest, previous,
                 nextEmailId, delivered>>

\* a join that resolves with the first promise that settles
OneSettled(promises) ==
  \/ DOMAIN promises = {}
  \/ \E u \in DOMAIN promises : promises[u].state # "pending"

\* a fail-fast join: resolves at the first rejection
AllSettledOrOneRejected(promises) ==
  \/ \A u \in DOMAIN promises : promises[u].state # "pending"
  \/ \E u \in DOMAIN promises : promises[u].state = "rejected"

\* line 160: Promise.allSettled resolves once no promise is pending
AllSettled(promises) == \A u \in DOMAIN promises : promises[u].state # "pending"

\* lines 160-180: the settled results are partitioned and returned
Respond(i) ==
  /\ pc[i] = "running"
  /\ AllSettled(emailPromises[i])
  /\ LET results == Results(emailPromises[i])
     IN response' = [response EXCEPT ![i] =
           [NoResponse EXCEPT !.status = 200,
              !.message = "Proceso de envio de correos completado.",
              !.hasResults = TRUE,
              !.success = results.success,
              !.failed = results.failed]]
  /\ pc' = [pc EXCEPT ![i] = "done"]
  /\ UNCHANGED <<email_send, dbVars, authHeader, ticketsData, usersToEmail,
                 emailPromises, fetchCalls, sendCalls, updateCalls, runs,
                 latest, previous, nextEmailId, delivered>>

Next ==
  \/ \E i \in Invocations, h \in Headers : Request(i, h)
  \/ \E i \in Invocations, msg \in FetchErrors : FetchError(i, msg)
  \/ \E i \in Invocations, msg \in FetchErrors : FetchThrows(i, msg)
  \/ \E i \in Invocations : Fetch(i)
  \/ \E i \in Invocations, u \in Users, msg \in ProviderErrors : SendError(i, u, msg)
  \/ \E i \in Invocations, u \in Users : SendOk(i, u)
  \/ \E i \in Invocations, u \in Users, msg \in DbErrors : UpdateError(i, u, msg)
  \/ \E i \in Invocations, u \in Users : UpdateOk(i, u)
  \/ \E i \in Invocations : Respond(i)

Spec == Init /\ [][Next]_vars

\* the scheduler alone: a request arrives only when no invocation is running
Quiet == \A j \in Invocations : pc[j] \in {"idle", "done"}

RequestAlone(i, h) ==
  /\ Quiet
  /\ Route(i, h)
  /\ latest' = i
  /\ previous' = IF latest = i THEN "none" ELSE latest

NextSeq ==
  \/ \E i \in Invocations, h \in Headers : RequestAlone(i, h)
  \/ \E i \in Invocations, msg \in FetchErrors : FetchError(i, msg)
  \/ \E i \in Invocations, msg \in FetchErrors : FetchThrows(i, msg)
  \/ \E i \in Invocations : Fetch(i)
  \/ \E i \in Invocations, u \in Users, msg \in ProviderErrors :
        SendError(i, u, msg)
  \/ \E i \in Invocations, u \in Users : SendOk(i, u)
  \/ \E i \in Invocations, u \in Users, msg \in DbErrors :
        UpdateError(i, u, msg)
  \/ \E i \in Invocations, u \in Users : UpdateOk(i, u)
  \/ \E i \in Invocations : Respond(i)

SpecSeq == Init /\ [][NextSeq]_vars

\* ------------------------------------------------ vocabulary of the claims
Completed(i) == pc[i] = "done" /\ response[i].hasResults
Groups(i) == DOMAIN usersToEmail[i]
GroupIds(i, u) == Range(TicketIdsToUpdate(usersToEmail[i][u]))
SendsOf(i, u) == {k \in DOMAIN sendCalls[i] : sendCalls[i][k].id_user = u}
UpdatesOf(i, u) == {k \in DOMAIN updateCalls[i] : updateCalls[i][k].id_user = u}
SuccessOf(i, u) == {k \in DOMAIN response[i].success :
                      response[i].success[k].id_user = u}
FailedOf(i, u) == {k \in DOMAIN response[i].failed :
                     response[i].failed[k].id_user = u}
Listing(t) == padStart(ToString(TicketNumber(t)), 4, "0")
MissingEmailText == "El usuario no tiene un email registrado."
UpdateFailedPrefix == "Email sent, but DB update failed: "
SendReturned(i, u, r) == \E k \in SendsOf(i, u) : sendCalls[i][k].result = r
UpdateReturned(i, u, r) == \E k \in UpdatesOf(i, u) : updateCalls[i][k].result = r
\* ----------------------------------------------------------------- claims
\* C1: an update is issued for a group only after that group's send has
\* returned success, with every updated ticket listed in that send; and no
\* ticket has email_send = TRUE without a delivered e-mail that listed it.
C1_UpdateOnlyAfterSendOk ==
  /\ \A i \in Invocations : \A k \in DOMAIN updateCalls[i] :
        \E j \in DOMAIN sendCalls[i] :
          /\ sendCalls[i][j].id_user = updateCalls[i][k].id_user
          /\ sendCalls[i][j].result = "ok"
          /\ \A t \in Range(updateCalls[i][k].ids) :
                Listing(t) \in Range(sendCalls[i][j].tickets)
  /\ \A i \in Invocations : \A u \in Groups(i) :
        (SendsOf(i, u) = {} \/ SendReturned(i, u, "error")
           \/ SendReturned(i, u, "pending")) => UpdatesOf(i, u) = {}
  /\ \A t \in Tickets : email_send[t] => delivered[t] > 0

\* one group updated after its send, a sibling's send failed and it has no update
C1_Witness ==
  \E i \in Invocations : \E u, v \in Groups(i) :
    /\ UpdateReturned(i, u, "ok")
    /\ \A t \in GroupIds(i, u) : email_send[t]
    /\ SendReturned(i, v, "error")
    /\ UpdatesOf(i, v) = {}

\* C2: in a completed report every group has exactly one entry over the
\* success and failed lists, and the two lists together have one entry per group.
C2_ExactlyOneEntryPerGroup ==
  \A i \in Invocations : Completed(i) =>
    /\ \A u \in Groups(i) :
          Cardinality(SuccessOf(i, u)) + Cardinality(FailedOf(i, u)) = 1
    /\ Len(response[i].success) + Len(response[i].failed)
          = Cardinality(Groups(i))

\* a completed report of two groups: a missing email and a success
C2_Witness ==
  \E i \in Invocations : \E u, v \in Groups(i) :
    /\ Completed(i)
    /\ usersToEmail[i][u].email = ""
    /\ Cardinality(FailedOf(i, u)) = 1
    /\ Cardinality(SuccessOf(i, v)) = 1

\* the outcome a group must have, from its own email, send result and
\* update result alone
OwnOutcome(i, u) ==
  LET g == usersToEmail[i][u]
      failedEntry(text) ==
        /\ SuccessOf(i, u) = {}
        /\ \E k \in DOMAIN response[i].failed :
             /\ FailedOf(i, u) = {k}
             /\ response[i].failed[k].error = text
  IN IF g.email = ""
     THEN SendsOf(i, u) = {} /\ UpdatesOf(i, u) = {}
          /\ failedEntry(MissingEmailText)
     ELSE \E s \in DOMAIN sendCalls[i] :
            /\ SendsOf(i, u) = {s}
            /\ \/ /\ sendCalls[i][s].result = "error"
                  /\ UpdatesOf(i, u) = {}
                  /\ failedEntry(sendCalls[i][s].error)
               \/ /\ sendCalls[i][s].result = "ok"
                  /\ \E k \in DOMAIN updateCalls[i] :
                       /\ UpdatesOf(i, u) = {k}
                       /\ \/ /\ updateCalls[i][k].result = "error"
                             /\ failedEntry(UpdateFailedPrefix
                                             \o updateCalls[i][k].error)
                          \/ /\ updateCalls[i][k].result = "ok"
                             /\ FailedOf(i, u) = {}
                             /\ \E e \in DOMAIN response[i].success :
                                  /\ SuccessOf(i, u) = {e}
                                  /\ response[i].success[e].email_id
                                       = sendCalls[i][s].email_id

\* C3: in a completed report every group has the outcome that its own
\* email, send result and update result determine, whatever its siblings
\* did and in whatever order; and a group whose update returned success
\* has its tickets flagged in every state, whatever its siblings do.
C3_GroupsIndependent ==
  \A i \in Invocations :
    /\ Completed(i) => \A u \in Groups(i) : OwnOutcome(i, u)
    /\ \A u \in Groups(i) :
          UpdateReturned(i, u, "ok") => \A t \in GroupIds(i, u) : email_send[t]

\* a group succeeded in a report where a sibling's send or update failed
C3_Witness ==
  \E i \in Invocations : \E u, v \in Groups(i) :
    /\ Completed(i)
    /\ u # v
    /\ UpdateReturned(i, u, "ok")
    /\ SuccessOf(i, u) # {}
    /\ SendReturned(i, v, "error") \/ UpdateReturned(i, v, "error")
    /\ FailedOf(i, v) # {}

\* C4: email_send is monotonic: no step of any invocation, authorized or
\* not, failed or not, takes a ticket's flag from TRUE back to FALSE.
C4_NotifiedMonotonic ==
  [][\A t \in Tickets : email_send[t] => email_send'[t]]_vars

\* a ticket is flagged, the invocation that flagged it is over and its slot
\* has served a later request that was refused or failed
C4_Witness ==
  \E t \in Tickets :
    /\ email_send[t]
    /\ \A i \in Invocations : updateCalls[i] = <<>>
    /\ \E i \in Invocations : pc[i] = "done" /\ response[i].status \in {401, 500}

\* C5: an invocation whose select returns after a ticket was flagged does
\* not get that ticket in a group, and every send and update of an
\* invocation lists tickets of its own groups only.
C5_NeverReconsidered ==
  [][\A i \in Invocations :
       /\ (pc[i] = "fetching" /\ pc'[i] = "running") =>
             \A u \in DOMAIN usersToEmail'[i] :
               \A t \in Range(TicketIdsToUpdate(usersToEmail'[i][u])) :
                 ~email_send[t]
       /\ \A k \in DOMAIN sendCalls'[i] :
             /\ sendCalls'[i][k].id_user \in DOMAIN usersToEmail'[i]
             /\ sendCalls'[i][k].tickets =
                  TicketList(usersToEmail'[i][sendCalls'[i][k].id_user])
       /\ \A k \in DOMAIN updateCalls'[i] :
             /\ updateCalls'[i][k].id_user \in DOMAIN usersToEmail'[i]
             /\ updateCalls'[i][k].ids =
                  TicketIdsToUpdate(usersToEmail'[i][updateCalls'[i][k].id_user])
    ]_vars

\* an invocation is running on groups fetched after another ticket was
\* flagged by an invocation that is over
C5_Witness ==
  \E i \in Invocations : \E t \in Tickets :
    /\ email_send[t]
    /\ \A j \in Invocations : updateCalls[j] = <<>>
    /\ pc[i] = "running"
    /\ sendCalls[i] # <<>>
    /\ \A u \in Groups(i) : t \notin GroupIds(i, u)

\* C6: a success entry for a user in a completed report means that the
\* invocation's send for that user returned success, that the entry carries
\* the identifier that send returned, and that every ticket of the user's
\* group has email_send = TRUE.
C6_SuccessEntrySound ==
  \A i \in Invocations : Completed(i) =>
    \A e \in DOMAIN response[i].success :
      LET entry == response[i].success[e]
      IN /\ entry.id_user \in Groups(i)
         /\ \E s \in SendsOf(i, entry.id_user) :
              /\ sendCalls[i][s].result = "ok"
              /\ sendCalls[i][s].email_id = entry.email_id
         /\ \A t \in GroupIds(i, entry.id_user) : email_send[t]

\* a success entry for a group of two tickets, after an earlier e-mail of
\* the provider got another identifier
C6_Witness ==
  \E i \in Invocations : \E e \in DOMAIN response[i].success :
    /\ Completed(i)
    /\ Cardinality(GroupIds(i, response[i].success[e].id_user)) >= 2
    /\ response[i].success[e].email_id >= 2

\* C7: a group whose user has no email gets no send and no update, keeps
\* its tickets unflagged, and has exactly one entry in a completed report:
\* a failed entry with the missing-email reason.
C7_MissingEmailSkipped ==
  \A i \in Invocations : \A u \in Groups(i) :
    usersToEmail[i][u].email = "" =>
      /\ SendsOf(i, u) = {}
      /\ UpdatesOf(i, u) = {}
      /\ \A t \in GroupIds(i, u) : ~email_send[t]
      /\ Completed(i) =>
           /\ SuccessOf(i, u) = {}
           /\ Cardinality(FailedOf(i, u)) = 1
           /\ \A k \in FailedOf(i, u) :
                response[i].failed[k].error = MissingEmailText

\* a completed report with a group without email whose sibling was sent to
C7_Witness ==
  \E i \in Invocations : \E u, v \in Groups(i) :
    /\ Completed(i)
    /\ usersToEmail[i][u].email = ""
    /\ FailedOf(i, u) # {}
    /\ SendsOf(i, v) # {}

\* the error texts a report can carry for a send failure
SendFailureTexts == ProviderErrors

\* C8: a group whose send succeeded and whose update failed has a failed
\* entry and no success entry, and the entry's error is none of the texts
\* of a send failure nor the missing-email text: it differs from the error
\* of every send-failure entry of every report.
C8_UpdateFailureDistinct ==
  \A i \in Invocations : Completed(i) =>
    \A u \in Groups(i) : UpdateReturned(i, u, "error") =>
      /\ SendReturned(i, u, "ok")
      /\ SuccessOf(i, u) = {}
      /\ Cardinality(FailedOf(i, u)) = 1
      /\ \A k \in FailedOf(i, u) :
           /\ response[i].failed[k].error \notin SendFailureTexts
           /\ response[i].failed[k].error # MissingEmailText
           /\ \A j \in Invocations : \A v \in Groups(j) :
                (Completed(j) /\ SendReturned(j, v, "error")) =>
                  \A l \in FailedOf(j, v) :
                    response[j].failed[l].error # response[i].failed[k].error

\* one report with an update failure and a send failure side by side
C8_Witness ==
  \E i \in Invocations : \E u, v \in Groups(i) :
    /\ Completed(i)
    /\ UpdateReturned(i, u, "error")
    /\ SendReturned(i, v, "error")
    /\ FailedOf(i, u) # {} /\ FailedOf(i, v) # {}

Unauthorized(i) == pc[i] # "idle" /\ ~Authorized(authHeader[i])

\* C9: a request, GET or POST, whose authorization header is missing or is
\* not 'Bearer <secret>' is answered 401 at once, with no select, no send
\* and no update issued, and the step that takes it changes no ticket.
C9_UnauthorizedNoEffect ==
  [][\A i \in Invocations :
       /\ Unauthorized(i)' =>
             /\ pc'[i] = "done"
             /\ response'[i].status = 401
             /\ response'[i].message = "Unauthorized"
             /\ ~response'[i].hasResults
             /\ fetchCalls'[i] = <<>>
             /\ sendCalls'[i] = <<>>
             /\ updateCalls'[i] = <<>>
             /\ usersToEmail'[i] = EmptyGroups
       /\ (Unauthorized(i)' /\ <<pc[i], authHeader[i], runs>>
                                # <<pc[i], authHeader[i], runs>>')
             => email_send' = email_send
    ]_vars

\* a GET without header and a POST with a wrong secret, both refused,
\* while tickets are eligible
C9_Witness ==
  \E i, j \in Invocations :
    /\ pc[i] = "done" /\ Method(i) = "GET" /\ authHeader[i] = NullHeader
    /\ pc[j] = "done" /\ Method(j) = "POST" /\ authHeader[j] = "Bearer wrong"
    /\ response[i].status = 401 /\ response[j].status = 401
    /\ \E t \in Tickets : Eligible(t)

FetchFailed(i) == fetchCalls[i] # <<>> /\ fetchCalls[i][1].result = "error"

\* C10: when the select returns an error the invocation ends with a 500
\* response carrying the error's message, has issued no send and no update,
\* and the step that handles the error changes no ticket.
C10_FetchErrorTerminal ==
  [][\A i \in Invocations :
       /\ FetchFailed(i)' =>
             /\ pc'[i] = "done"
             /\ response'[i].status = 500
             /\ response'[i].error = fetchCalls'[i][1].error
             /\ response'[i].error \in FetchErrors
             /\ ~response'[i].hasResults
             /\ sendCalls'[i] = <<>>
             /\ updateCalls'[i] = <<>>
       /\ (~FetchFailed(i) /\ FetchFailed(i)') => email_send' = email_send
    ]_vars

\* a select failed while tickets were eligible
C10_Witness ==
  \E i \in Invocations :
    /\ FetchFailed(i)
    /\ response[i].status = 500
    /\ \E t \in Tickets : Eligible(t)

FetchReturned(i) == fetchCalls[i] # <<>> /\ fetchCalls[i][1].result = "ok"
NothingPendingText == "No hay correos pendientes por enviar."

\* C11: when the select succeeds with no row, the invocation is over with
\* the 'nothing pending' message, status 200, no result lists, no send and
\* no update; a response with results exists only after a select that
\* returned at least one row.
C11_EmptySetNothingPending ==
  \A i \in Invocations :
    /\ (FetchReturned(i) /\ ticketsData[i] = <<>>) =>
          /\ pc[i] = "done"
          /\ response[i].status = 200
          /\ response[i].message = NothingPendingText
          /\ response[i].error = ""
          /\ ~response[i].hasResults
          /\ response[i].success = <<>> /\ response[i].failed = <<>>
          /\ sendCalls[i] = <<>> /\ updateCalls[i] = <<>>
    /\ response[i].hasResults => (FetchReturned(i) /\ ticketsData[i] # <<>>)
    /\ response[i].message = NothingPendingText =>
          (FetchReturned(i) /\ ticketsData[i] = <<>>)

\* an invocation found nothing pending after an earlier one had flagged
\* every eligible ticket
C11_Witness ==
  \E i \in Invocations :
    /\ FetchReturned(i) /\ ticketsData[i] = <<>>
    /\ response[i].message = NothingPendingText
    /\ \E t \in Tickets : email_send[t]

GroupRows(i) == UNION {Range(usersToEmail[i][u].tickets) : u \in Groups(i)}
AllGroupIds(i) == {r.id_tickets : r \in GroupRows(i)}

\* C12: every ticket placed in a group had a validated payment and
\* email_send = FALSE in the data store when the select returned, and its
\* row says so; the e-mails list and the updates target tickets of the
\* groups only, so no other ticket is listed or updated.
C12_OnlyEligibleInGroups ==
  [][\A i \in Invocations :
       /\ (pc[i] = "fetching" /\ pc'[i] = "running") =>
             \A r \in GroupRows(i)' \cup Range(ticketsData'[i]) :
               /\ validated[pay_id(r.id_tickets)] = TRUE
               /\ email_send[r.id_tickets] = FALSE
       /\ \A r \in GroupRows(i)' :
             r.pay_data.validated = TRUE /\ r.email_send = FALSE
       /\ \A k \in DOMAIN sendCalls'[i] : \A t \in Tickets :
             Listing(t) \in Range(sendCalls'[i][k].tickets) =>
               t \in AllGroupIds(i)'
       /\ \A k \in DOMAIN updateCalls'[i] :
             Range(updateCalls'[i][k].ids) \subseteq AllGroupIds(i)'
       /\ \A t \in Tickets : (~email_send[t] /\ email_send'[t]) =>
             validated[pay_id(t)] = TRUE
    ]_vars

\* a user was sent an e-mail while another of the user's tickets, of a
\* payment not validated, stayed out of the group
C12_Witness ==
  \E i \in Invocations : \E u \in Groups(i) : \E t \in Tickets :
    /\ SendReturned(i, u, "ok")
    /\ user_data[pay_id(t)] = <<u>>
    /\ ~validated[pay_id(t)]
    /\ t \notin AllGroupIds(i)

Resolved(r) == r.pay_data.user_data # <<>>
UserOf(r) == r.pay_data.user_data[1]
GroupsOf(i, r) == {u \in Groups(i) : r \in Range(usersToEmail[i][u].tickets)}

FailedUnsent(i, u) ==
  usersToEmail[i][u].email = "" \/ SendReturned(i, u, "error")
\* the group's e-mail was delivered and its update failed
SentNotFlagged(i, u) ==
  SendReturned(i, u, "ok") /\ UpdateReturned(i, u, "error")
FetchedIds(i) == {r.id_tickets : r \in Range(ticketsData[i])}

\* C14: with one invocation at a time, after an invocation in which a
\* group failed for a missing email or a send error the group's tickets
\* still have email_send = FALSE, and the select of the next invocation
\* returns them again, in the group of the same user.
C14_FailedGroupStaysEligible ==
  \A i \in Invocations : Completed(i) =>
    \A u \in Groups(i) : FailedUnsent(i, u) =>
      /\ latest = i => \A t \in GroupIds(i, u) : ~email_send[t]
      /\ \A j \in Invocations :
           (previous = i /\ latest = j /\ FetchReturned(j)) =>
             /\ GroupIds(i, u) \subseteq FetchedIds(j)
             /\ u \in Groups(j)
             /\ GroupIds(i, u) \subseteq GroupIds(j, u)

\* a group failed on a send error, and the next invocation has fetched its
\* tickets again and is sending to the same user
C14_Witness ==
  \E i, j \in Invocations : \E u \in Groups(i) :
    /\ Completed(i) /\ SendReturned(i, u, "error")
    /\ previous = i /\ latest = j /\ FetchReturned(j)
    /\ u \in Groups(j)
    /\ SendsOf(j, u) # {}

\* C15: with one invocation at a time, after an invocation in which a
\* group's send succeeded and its update failed the group's tickets still
\* have email_send = FALSE although an e-mail listing them was delivered,
\* and the next invocation whose select returns sends the same user an
\* e-mail listing the same tickets; once that send succeeds the tickets
\* have been delivered twice.
C15_ResendAfterUpdateFailure ==
  \A i \in Invocations : Completed(i) =>
    \A u \in Groups(i) : SentNotFlagged(i, u) =>
      /\ latest = i => \A t \in GroupIds(i, u) :
                         ~email_send[t] /\ delivered[t] >= 1
      /\ \A j \in Invocations :
           (previous = i /\ latest = j /\ FetchReturned(j)) =>
             \E k \in SendsOf(j, u) : \E l \in SendsOf(i, u) :
               /\ sendCalls[j][k].to = sendCalls[i][l].to
               /\ sendCalls[j][k].tickets = sendCalls[i][l].tickets
               /\ sendCalls[j][k].result = "ok" =>
                    \A t \in GroupIds(i, u) : delivered[t] >= 2

\* the second e-mail for the same tickets has been delivered
C15_Witness ==
  \E i, j \in Invocations : \E u \in Groups(i) :
    /\ Completed(i) /\ SentNotFlagged(i, u)
    /\ previous = i /\ latest = j
    /\ SendReturned(j, u, "ok")
    /\ \A t \in GroupIds(i, u) : delivered[t] = 2

\* C16: a response with results exists only when every group of the
\* invocation has settled: no promise, send or update of the invocation is
\* pending, and every group has its entry in the report.
C16_ReportAfterAllSettled ==
  \A i \in Invocations : response[i].hasResults =>
    /\ pc[i] = "done"
    /\ \A u \in Groups(i) :
          /\ emailPromises[i][u].state \in {"fulfilled", "rejected"}
          /\ SuccessOf(i, u) \cup FailedOf(i, u) # {}
    /\ \A k \in DOMAIN sendCalls[i] : sendCalls[i][k].result # "pending"
    /\ \A k \in DOMAIN updateCalls[i] : updateCalls[i][k].result # "pending"
    /\ DOMAIN emailPromises[i] = Groups(i)

\* a report returned after one group ended on an update success and
\* another on an update failure
C16_Witness ==
  \E i \in Invocations : \E u, v \in Groups(i) :
    /\ response[i].hasResults
    /\ UpdateReturned(i, u, "ok")
    /\ UpdateReturned(i, v, "error")

\* C17: within one invocation nothing is retried: every group has at most
\* one send and at most one update, whatever their results, and no call is
\* made for a user without a group.
C17_NoRetry ==
  \A i \in Invocations :
    /\ \A u \in Users :
          /\ Cardinality(SendsOf(i, u)) <= 1
          /\ Cardinality(UpdatesOf(i, u)) <= 1
          /\ u \notin Groups(i) => (SendsOf(i, u) = {} /\ UpdatesOf(i, u) = {})
    /\ \A k \in DOMAIN sendCalls[i] : sendCalls[i][k].id_user \in Users
    /\ \A k \in DOMAIN updateCalls[i] : updateCalls[i][k].id_user \in Users

\* an invocation is over with one failed send and one failed update, each
\* tried once
C17_Witness ==
  \E i \in Invocations : \E u, v \in Groups(i) :
    /\ pc[i] = "done"
    /\ SendReturned(i, u, "error") /\ Cardinality(SendsOf(i, u)) = 1
    /\ UpdateReturned(i, v, "error") /\ Cardinality(UpdatesOf(i, v)) = 1
    /\ Cardinality(SendsOf(i, v)) = 1

\* the tickets whose number an e-mail lists
ListedIn(call) == {t \in Tickets : Listing(t) \in Range(call.tickets)}

\* C18: within one invocation the update of a group targets exactly the
\* identifiers of the tickets that the group's e-mail lists, and the
\* identifier sets of the updates of different groups are disjoint.
C18_UpdateMatchesEmail ==
  \A i \in Invocations :
    /\ \A k \in DOMAIN updateCalls[i] :
          \E s \in SendsOf(i, updateCalls[i][k].id_user) :
            /\ Range(updateCalls[i][k].ids) = ListedIn(sendCalls[i][s])
            /\ Len(updateCalls[i][k].ids) = Len(sendCalls[i][s].tickets)
            /\ Cardinality(Range(updateCalls[i][k].ids))
                 = Len(updateCalls[i][k].ids)
    /\ \A k1, k2 \in DOMAIN updateCalls[i] :
          k1 # k2 =>
            Range(updateCalls[i][k1].ids) \cap Range(updateCalls[i][k2].ids) = {}

\* two groups of one invocation have their updates out, one of them for
\* several tickets
C18_Witness ==
  \E i \in Invocations :
    /\ Len(updateCalls[i]) = 2
    /\ \E k \in DOMAIN updateCalls[i] : Len(updateCalls[i][k].ids) >= 2
    /\ \E k \in DOMAIN updateCalls[i] : updateCalls[i][k].result = "ok"

\* the successful sends, of any invocation, that list the ticket
SuccessfulSendsOf(t) ==
  {c \in UNION {{<<i, k>> : k \in DOMAIN sendCalls[i]} : i \in Invocations} :
     /\ sendCalls[c[1]][c[2]].result = "ok"
     /\ t \in ListedIn(sendCalls[c[1]][c[2]])}

\* C19: across the invocations whose calls are on record, when every send
\* that succeeded was followed by an update and every update succeeded, every
\* ticket is listed in at most one successful send.
C19_AtMostOneSendAcrossOverlap ==
  (\A i \in Invocations :
      /\ \A k \in DOMAIN updateCalls[i] : updateCalls[i][k].result = "ok"
      /\ \A k \in DOMAIN sendCalls[i] :
            sendCalls[i][k].result = "ok" =>
              UpdatesOf(i, sendCalls[i][k].id_user) # {})
    => \A t \in Tickets : Cardinality(SuccessfulSendsOf(t)) <= 1

\* C20: every fetched row is accounted for in a completed report: it is in
\* exactly one group, and that group has exactly one entry.
C20_EveryFetchedTicketReported ==
  \A i \in Invocations : Completed(i) =>
    \A r \in Range(ticketsData[i]) :
      /\ Cardinality(GroupsOf(i, r)) = 1
      /\ \A u \in GroupsOf(i, r) :
            Cardinality(SuccessOf(i, u)) + Cardinality(FailedOf(i, u)) = 1
====
